---- MODULE Spec2Model ----
(***************************************************************************)
(* State-machine model of NoPartsBatteryGuageAVR.c: readVccVoltage() and   *)
(* the indicator loop of main(), together with the ADC peripheral of the   *)
(* ATtiny84 as far as the program drives it (ADMUX, ADCSRA, ADCL, ADCH)    *)
(* and the LED port (DDRA, PORTA).  Every C statement is one action; the   *)
(* completion of a conversion is an action of the hardware.                *)
(***************************************************************************)
EXTENDS Integers, Sequences, FiniteSets, TLC

(* ---------------- register bit numbers (avr/io.h) ---------------- *)
ADEN == 7
ADSC == 6
ADPS1 == 1
ADPS0 == 0
PORTA7 == 7

(* ---------------- 8/16-bit integer helpers ---------------- *)
RECURSIVE Pow2(_)
Pow2(n) == IF n = 0 THEN 1 ELSE 2 * Pow2(n - 1)

\* _BV(bit) of avr/io.h: 1 << bit
BV(bit) == Pow2(bit)

RECURSIVE BitAndN(_, _, _)
BitAndN(a, b, n) ==
    IF n = 0 THEN 0
    ELSE (IF a % 2 = 1 /\ b % 2 = 1 THEN 1 ELSE 0)
         + 2 * BitAndN(a \div 2, b \div 2, n - 1)

RECURSIVE BitOrN(_, _, _)
BitOrN(a, b, n) ==
    IF n = 0 THEN 0
    ELSE (IF a % 2 = 1 \/ b % 2 = 1 THEN 1 ELSE 0)
         + 2 * BitOrN(a \div 2, b \div 2, n - 1)

\* C operators & | ~ on 8-bit register values and 16-bit ints
And8(a, b) == BitAndN(a, b, 8)
Or8(a, b) == BitOrN(a, b, 8)
Not8(a) == 255 - a
Or16(a, b) == BitOrN(a, b, 16)
Shl16(a, k) == (a * Pow2(k)) % 65536

\* (reg & _BV(bit)) != 0
BitSet(reg, bit) == (reg \div BV(bit)) % 2 = 1

(* ---------------- the ADC samples ---------------- *)
\* the 10-bit conversion results the hardware can deliver
RawSamples == 0..1023
NonZeroSamples == 1..1023

(* ---------------- state ---------------- *)
VARIABLES
    pc,        \* position of the single thread of control
    ADMUX, ADCSRA, ADCL, ADCH, DDRA, PORTA,   \* I/O registers
    adcLocked, \* ADCL has been read and ADCH not yet: data register frozen
    low, high, adc, vccx10,    \* locals of readVccVoltage
    mvccx10, vcc, i,           \* locals of main's loop body
    settled,   \* history: the 1 ms settling delay of this call has elapsed
    starts,    \* history: the writes of ADSC = 1 in this call
    reads,     \* history: the result register reads of this call
    divZero,   \* history: the division of this call ran with divisor 0
    led        \* history: indicator events of this loop iteration

vars == <<pc, ADMUX, ADCSRA, ADCL, ADCH, DDRA, PORTA, adcLocked,
          low, high, adc, vccx10, mvccx10, vcc, i,
          settled, starts, reads, divZero, led>>

regs == <<ADMUX, ADCSRA, ADCL, ADCH, DDRA, PORTA, adcLocked>>
rlocals == <<low, high, adc, vccx10>>
mlocals == <<mvccx10, vcc, i>>
rhist == <<settled, starts, reads, divZero>>

\* state after reset: all I/O registers read 0, control at the top of main
Init ==
    /\ pc = "m_ddra"
    /\ ADMUX = 0 /\ ADCSRA = 0 /\ ADCL = 0 /\ ADCH = 0
    /\ DDRA = 0 /\ PORTA = 0
    /\ adcLocked = FALSE
    /\ low = 0 /\ high = 0 /\ adc = 0 /\ vccx10 = 0
    /\ mvccx10 = 0 /\ vcc = 0 /\ i = 0
    /\ settled = FALSE /\ starts = <<>> /\ reads = <<>> /\ divZero = FALSE
    /\ led = <<>>

(* ---------------- the ADC peripheral ---------------- *)
\* a CPU write of value v to ADCSRA: ADEN and the prescaler bits take the
\* written value; writing ADSC = 1 starts a conversion, writing ADSC = 0
\* has no effect, so the bit stays set while a conversion is in progress
WriteADCSRA(v) ==
    IF BitSet(ADCSRA, ADSC) THEN Or8(v, BV(ADSC)) ELSE v

\* the entry a write of ADSC = 1 leaves in the history of the call
StartRec(at) ==
    [at |-> at, settled |-> settled, began |-> ~BitSet(ADCSRA, ADSC)]

\* the entry a result register read leaves in the history of the call
ReadRec(reg) ==
    [reg |-> reg, busy |-> BitSet(ADCSRA, ADSC),
     enabled |-> BitSet(ADCSRA, ADEN), started |-> Len(starts)]

\* hardware: the conversion in progress completes with sample s; ADSC
\* returns to zero and the result is stored in ADCL/ADCH unless the data
\* register is frozen by an ADCL read that has had no ADCH read yet
ConversionComplete(S) ==
    /\ BitSet(ADCSRA, ADEN)
    /\ BitSet(ADCSRA, ADSC)
    /\ \E s \in S :
          IF adcLocked
          THEN UNCHANGED <<ADCL, ADCH>>
          ELSE /\ ADCL' = s % 256
               /\ ADCH' = s \div 256
    /\ ADCSRA' = And8(ADCSRA, Not8(BV(ADSC)))
    /\ UNCHANGED <<pc, ADMUX, DDRA, PORTA, adcLocked>>
    /\ UNCHANGED <<rlocals, mlocals, rhist, led>>

(* ---------------- readVccVoltage ---------------- *)
\* ADMUX = 0b00100001;
SelectInputs ==
    /\ pc = "r_admux"
    /\ ADMUX' = 33
    /\ pc' = "r_enable"
    /\ UNCHANGED <<ADCSRA, ADCL, ADCH, DDRA, PORTA, adcLocked>>
    /\ UNCHANGED <<rlocals, mlocals, rhist, led>>

\* ADCSRA |= _BV(ADEN) | _BV( ADSC) | _BV(ADPS1) | _BV(ADPS0);
EnableADC ==
    /\ pc = "r_enable"
    /\ ADCSRA' = WriteADCSRA(Or8(ADCSRA,
                    Or8(Or8(BV(ADEN), BV(ADSC)), Or8(BV(ADPS1), BV(ADPS0)))))
    /\ starts' = Append(starts, StartRec("r_enable"))
    /\ pc' = "r_delay"
    /\ UNCHANGED <<ADMUX, ADCL, ADCH, DDRA, PORTA, adcLocked>>
    /\ UNCHANGED <<rlocals, mlocals, settled, reads, divZero, led>>

\* _delay_ms(1);
SettleDelay ==
    /\ pc = "r_delay"
    /\ settled' = TRUE
    /\ pc' = "r_start1"
    /\ UNCHANGED <<regs, rlocals, mlocals, starts, reads, divZero, led>>

\* ADCSRA |= _BV(ADSC);   // Start 1st conversion
StartFirst ==
    /\ pc = "r_start1"
    /\ ADCSRA' = WriteADCSRA(Or8(ADCSRA, BV(ADSC)))
    /\ starts' = Append(starts, StartRec("r_start1"))
    /\ pc' = "r_wait1"
    /\ UNCHANGED <<ADMUX, ADCL, ADCH, DDRA, PORTA, adcLocked>>
    /\ UNCHANGED <<rlocals, mlocals, settled, reads, divZero, led>>

\* while( ADCSRA & _BV( ADSC) ) ;   (leaves the loop once ADSC reads 0)
WaitFirst ==
    /\ pc = "r_wait1"
    /\ ~BitSet(ADCSRA, ADSC)
    /\ pc' = "r_start2"
    /\ UNCHANGED <<regs, rlocals, mlocals, rhist, led>>

\* ADCSRA |= _BV(ADSC);   // Start a conversion
StartSecond ==
    /\ pc = "r_start2"
    /\ ADCSRA' = WriteADCSRA(Or8(ADCSRA, BV(ADSC)))
    /\ starts' = Append(starts, StartRec("r_start2"))
    /\ pc' = "r_wait2"
    /\ UNCHANGED <<ADMUX, ADCL, ADCH, DDRA, PORTA, adcLocked>>
    /\ UNCHANGED <<rlocals, mlocals, settled, reads, divZero, led>>

\* variant: the wait polls ADEN instead of ADSC
WaitSecondPollsEnable ==
    /\ pc = "r_wait2"
    /\ ~BitSet(ADCSRA, ADEN)
    /\ pc' = "r_low"
    /\ UNCHANGED <<regs, rlocals, mlocals, rhist, led>>

\* while( ADCSRA & _BV( ADSC) ) ;
WaitSecond ==
    /\ pc = "r_wait2"
    /\ ~BitSet(ADCSRA, ADSC)
    /\ pc' = "r_low"
    /\ UNCHANGED <<regs, rlocals, mlocals, rhist, led>>

\* uint8_t low  = ADCL;
ReadLow ==
    /\ pc = "r_low"
    /\ low' = ADCL
    /\ adcLocked' = TRUE
    /\ reads' = Append(reads, ReadRec("ADCL"))
    /\ pc' = "r_high"
    /\ UNCHANGED <<ADMUX, ADCSRA, ADCL, ADCH, DDRA, PORTA>>
    /\ UNCHANGED <<high, adc, vccx10, mlocals, settled, starts, divZero, led>>

\* uint8_t high = ADCH;
ReadHigh ==
    /\ pc = "r_high"
    /\ high' = ADCH
    /\ adcLocked' = FALSE
    /\ reads' = Append(reads, ReadRec("ADCH"))
    /\ pc' = "r_adc"
    /\ UNCHANGED <<ADMUX, ADCSRA, ADCL, ADCH, DDRA, PORTA>>
    /\ UNCHANGED <<low, adc, vccx10, mlocals, settled, starts, divZero, led>>

\* variant: the bytes are combined the wrong way round
CombineBytesSwapped(h, l) == Or16(Shl16(l, 8), h)

\* (high << 8) | low, stored in a uint16_t
CombineBytes(h, l) == Or16(Shl16(h, 8), l)

\* uint16_t adc = (high << 8) | low;
Combine ==
    /\ pc = "r_adc"
    /\ adc' = CombineBytes(high, low)
    /\ pc' = "r_div"
    /\ UNCHANGED <<regs, low, high, vccx10, mlocals, rhist, led>>

\* the 16-bit int product 11 * 1024 converted to unsigned for the division
Numerator == (11 * 1024) % 65536

\* the values (uint8_t)((11 * 1024) / a) can take: the truncated quotient
\* narrowed to 8 bits; for a = 0 the division is undefined and any 8-bit
\* value may result
Vccx10Of(a) ==
    IF a = 0 THEN 0..255 ELSE {(Numerator \div a) % 256}

\* variant: a zero sample is answered with the sentinel 0, no division
DivideGuarded ==
    /\ pc = "r_div"
    /\ IF adc = 0
       THEN vccx10' = 0 /\ divZero' = FALSE
       ELSE vccx10' = (Numerator \div adc) % 256 /\ divZero' = FALSE
    /\ pc' = "r_disable"
    /\ UNCHANGED <<regs, low, high, adc, mlocals, settled, starts, reads, led>>

\* uint8_t vccx10 = (uint8_t) ( (11 * 1024) / adc);
Divide ==
    /\ pc = "r_div"
    /\ \E v \in Vccx10Of(adc) : vccx10' = v
    /\ divZero' = (adc = 0)
    /\ pc' = "r_disable"
    /\ UNCHANGED <<regs, low, high, adc, mlocals, settled, starts, reads, led>>

\* variant: the statement clears ADSC and leaves ADEN set
DisableADCWrongBit ==
    /\ pc = "r_disable"
    /\ ADCSRA' = WriteADCSRA(And8(ADCSRA, Not8(BV(ADSC))))
    /\ pc' = "r_return"
    /\ UNCHANGED <<ADMUX, ADCL, ADCH, DDRA, PORTA, adcLocked>>
    /\ UNCHANGED <<rlocals, mlocals, rhist, led>>

\* ADCSRA &= ~_BV( ADEN );
DisableADC ==
    /\ pc = "r_disable"
    /\ ADCSRA' = WriteADCSRA(And8(ADCSRA, Not8(BV(ADEN))))
    /\ pc' = "r_return"
    /\ UNCHANGED <<ADMUX, ADCL, ADCH, DDRA, PORTA, adcLocked>>
    /\ UNCHANGED <<rlocals, mlocals, rhist, led>>

\* return( vccx10 );  and  uint8_t vccx10 = readVccVoltage();  in main:
\* the callee's locals go out of scope
Return ==
    /\ pc = "r_return"
    /\ mvccx10' = vccx10 % 256
    /\ low' = 0 /\ high' = 0 /\ adc' = 0 /\ vccx10' = 0
    /\ pc' = "m_vcc"
    /\ UNCHANGED <<regs, vcc, i, rhist, led>>

(* ---------------- main ---------------- *)
\* DDRA |= _BV(PORTA7);
EnableOutput ==
    /\ pc = "m_ddra"
    /\ DDRA' = Or8(DDRA, BV(PORTA7))
    /\ pc' = "m_call"
    /\ UNCHANGED <<ADMUX, ADCSRA, ADCL, ADCH, PORTA, adcLocked>>
    /\ UNCHANGED <<rlocals, mlocals, rhist, led>>

\* top of while(1): control enters readVccVoltage()
Call ==
    /\ pc = "m_call"
    /\ pc' = "r_admux"
    /\ settled' = FALSE /\ starts' = <<>> /\ reads' = <<>> /\ divZero' = FALSE
    /\ UNCHANGED <<regs, rlocals, mlocals, led>>

\* uint8_t vcc = vccx10 / 10;  and  int i=0
WholeVolts ==
    /\ pc = "m_vcc"
    /\ vcc' = mvccx10 \div 10
    /\ i' = 0
    /\ pc' = "m_for"
    /\ UNCHANGED <<regs, rlocals, mvccx10, rhist, led>>

\* variant: the loop test is i<=vcc
ForTestInclusive ==
    /\ pc = "m_for"
    /\ pc' = IF i <= vcc THEN "m_on" ELSE "m_pause"
    /\ UNCHANGED <<regs, rlocals, mlocals, rhist, led>>

\* i<vcc
ForTest ==
    /\ pc = "m_for"
    /\ pc' = IF i < vcc THEN "m_on" ELSE "m_pause"
    /\ UNCHANGED <<regs, rlocals, mlocals, rhist, led>>

\* PORTA |= _BV(PORTA7);
LedOn ==
    /\ pc = "m_on"
    /\ PORTA' = Or8(PORTA, BV(PORTA7))
    /\ led' = Append(led, "on")
    /\ pc' = "m_hold_on"
    /\ UNCHANGED <<ADMUX, ADCSRA, ADCL, ADCH, DDRA, adcLocked>>
    /\ UNCHANGED <<rlocals, mlocals, rhist>>

\* _delay_ms(250);
HoldOn ==
    /\ pc = "m_hold_on"
    /\ led' = Append(led, "hold250")
    /\ pc' = "m_off"
    /\ UNCHANGED <<regs, rlocals, mlocals, rhist>>

\* variant: the mask is not inverted, PORTA &= _BV(PORTA7)
LedOffNoInvert ==
    /\ pc = "m_off"
    /\ PORTA' = And8(PORTA, BV(PORTA7))
    /\ led' = Append(led, "off")
    /\ pc' = "m_hold_off"
    /\ UNCHANGED <<ADMUX, ADCSRA, ADCL, ADCH, DDRA, adcLocked>>
    /\ UNCHANGED <<rlocals, mlocals, rhist>>

\* PORTA &= ~_BV(PORTA7);
LedOff ==
    /\ pc = "m_off"
    /\ PORTA' = And8(PORTA, Not8(BV(PORTA7)))
    /\ led' = Append(led, "off")
    /\ pc' = "m_hold_off"
    /\ UNCHANGED <<ADMUX, ADCSRA, ADCL, ADCH, DDRA, adcLocked>>
    /\ UNCHANGED <<rlocals, mlocals, rhist>>

\* _delay_ms(250);  and  i++
HoldOff ==
    /\ pc = "m_hold_off"
    /\ led' = Append(led, "hold250")
    /\ i' = i + 1
    /\ pc' = "m_for"
    /\ UNCHANGED <<regs, rlocals, mvccx10, vcc, rhist>>

\* _delay_ms(1000);  then the loop body's locals go out of scope and the
\* while(1) repeats
Pause ==
    /\ pc = "m_pause"
    /\ mvccx10' = 0 /\ vcc' = 0 /\ i' = 0
    /\ led' = <<>>
    /\ pc' = "m_call"
    /\ UNCHANGED <<regs, rlocals, rhist>>

(* ---------------- specifications ---------------- *)
Program ==
    \/ EnableOutput \/ Call
    \/ SelectInputs \/ EnableADC \/ SettleDelay
    \/ StartFirst \/ WaitFirst \/ StartSecond \/ WaitSecond
    \/ ReadLow \/ ReadHigh \/ Combine \/ Divide \/ DisableADC \/ Return
    \/ WholeVolts \/ ForTest \/ LedOn \/ HoldOn \/ LedOff \/ HoldOff
    \/ Pause

\* the hardware may deliver any 10-bit sample
Hardware == ConversionComplete(RawSamples)

Next == Program \/ Hardware

Spec == Init /\ [][Next]_vars

\* number of blinks main shows for nonzero sample s
BlinksOf(s) == ((((11 * 1024) % 65536) \div s) % 256) \div 10

\* one nonzero sample for each number of blinks the loop can show (the
\* smallest): control flow depends on the sample only through that number
LiveSamples ==
    {s \in NonZeroSamples :
        \A t \in NonZeroSamples : BlinksOf(t) = BlinksOf(s) => t >= s}

\* the hardware never delivers 0, every started conversion completes and
\* the CPU keeps executing
HardwareNZ == ConversionComplete(LiveSamples)

NextNZ == Program \/ HardwareNZ

LiveSpec ==
    Init /\ [][NextNZ]_vars /\ WF_vars(Program) /\ WF_vars(HardwareNZ)

(* ---------------- derived observations ---------------- *)
\* the sample held by the result registers
RawSample == ADCH * 256 + ADCL
\* level of the indicator pin PA7
LedHigh == BitSet(PORTA, PORTA7)
\* control is in main's loop, outside readVccVoltage
OutsideCall ==
    pc \in {"m_call", "m_vcc", "m_for", "m_on", "m_hold_on", "m_off",
            "m_hold_off", "m_pause"}
\* n complete activate/deactivate cycles of the indicator
RECURSIVE Cycles(_)
Cycles(n) ==
    IF n = 0 THEN <<>>
    ELSE Cycles(n - 1) \o <<"on", "hold250", "off", "hold250">>
\* number of activations in the indicator history
Blinks == Cardinality({k \in DOMAIN led : led[k] = "on"})

(* ---------------- C1 ---------------- *)
\* C1: whenever control is in the indicator loop outside a readVccVoltage
\* call, the ADC enable bit ADEN is clear.
C1_ConverterDisabledOutsideCall ==
    OutsideCall => ~BitSet(ADCSRA, ADEN)

\* a call has enabled the converter, sampled and returned; the loop blinks
C1_Witness ==
    /\ pc = "m_hold_on"
    /\ Len(starts) = 3 /\ Len(reads) = 2
    /\ BitSet(ADCSRA, ADPS0)
    /\ ~BitSet(ADCSRA, ADEN)

(* ---------------- C2 ---------------- *)
\* C2: for every raw sample in 1..1023 the value readVccVoltage computes is
\* floor(11264 / raw sample), and 11 * 1024 = 11264 fits 16-bit arithmetic.
C2_ReturnsQuotient ==
    (pc \in {"r_disable", "r_return"} /\ adc \in 1..1023)
        => /\ 11 * 1024 = 11264 /\ 11264 < 32768
           /\ vccx10 = 11264 \div adc

(* ---------------- C3 ---------------- *)
\* C3: the 8-bit value readVccVoltage returns is non-increasing in the raw
\* sample: no smaller raw sample in 1..1023 yields a smaller value than
\* the one being returned.
C3_Monotone ==
    (pc = "r_return" /\ adc \in 1..1023)
        => \A a \in 1..1023 :
              a < adc => \A d \in Vccx10Of(a) : d >= vccx10

C5_AtMostFiveBlinks ==
    (pc = "m_pause" /\ RawSample \in 1..1023)
        => /\ Blinks \in 0..5
           /\ \A n \in 1..4 :
                 mvccx10 \in (10 * n)..(10 * n + 9) => Blinks = n
           /\ mvccx10 >= 50 => Blinks = 5

(* ---------------- C6 ---------------- *)
\* C6: within one call ADSC is set exactly twice, and never at or before
\* the beginning of the settling delay.
C6_TwoConversionsAfterSettling ==
    /\ \A k \in DOMAIN starts : starts[k].settled
    /\ Len(starts) <= 2
    /\ pc \in {"r_low", "r_high", "r_adc", "r_div", "r_disable", "r_return"}
          => Len(starts) = 2

(* ---------------- C7 ---------------- *)
\* C7: when conversions complete and samples are nonzero, the program never
\* reaches a terminal state, every call is followed by the 1000 ms pause,
\* every pause by another call, and calls happen infinitely often.
C7_LoopForever ==
    /\ [](ENABLED NextNZ)
    /\ []<>(pc = "r_admux")
    /\ (pc = "r_admux") ~> (pc = "m_pause")
    /\ (pc = "m_pause") ~> (pc = "r_admux")

\* control has entered readVccVoltage again after an earlier call
C7_Witness ==
    pc = "r_admux" /\ ADMUX = 33 /\ BitSet(ADCSRA, ADPS1) /\ RawSample # 0

(* ---------------- C8 ---------------- *)
\* C8: the result registers are read ADCL first, then ADCH, both with the
\* last conversion of the call complete (ADSC clear) and the converter
\* still enabled, and the raw sample is high * 256 + low.
C8_ReadOrder ==
    /\ pc \in {"r_adc", "r_div", "r_disable", "r_return"}
          => /\ Len(reads) = 2
             /\ reads[1].reg = "ADCL" /\ reads[2].reg = "ADCH"
             /\ \A k \in 1..2 :
                   /\ ~reads[k].busy
                   /\ reads[k].enabled
                   /\ reads[k].started = Len(starts)
             /\ low = ADCL /\ high = ADCH
    /\ pc \in {"r_div", "r_disable", "r_return"}
          => adc = high * 256 + low
    /\ pc = "r_high"
          => Len(reads) = 1 /\ reads[1].reg = "ADCL" /\ BitSet(ADCSRA, ADEN)

\* both bytes of sample 375 read and combined, converter still enabled
C8_Witness ==
    /\ pc = "r_div" /\ high = 1 /\ low = 119 /\ adc = 375
    /\ BitSet(ADCSRA, ADEN)

(* ---------------- C9 ---------------- *)
\* C9: nothing guards the division: whenever the result registers held 0,
\* the division has been executed with divisor 0.
C9_DivisionUnguarded ==
    (pc \in {"r_disable", "r_return"} /\ RawSample = 0) => divZero

\* the division has run with raw sample 0
C9_Witness ==
    pc = "r_disable" /\ adc = 0 /\ divZero

(* ---------------- C10 ---------------- *)
\* C10: PA7 is high only inside the 250 ms on-phase; it is low whenever the
\* ADC is enabled and throughout the 1000 ms pause.
C10_LedAndConverterExclusive ==
    /\ LedHigh => pc \in {"m_hold_on", "m_off"}
    /\ BitSet(ADCSRA, ADEN) => ~LedHigh
    /\ pc = "m_pause" => ~LedHigh

\* the indicator is on in the second blink, converter off
C10_Witness ==
    pc = "m_hold_on" /\ LedHigh /\ i = 1 /\ ~BitSet(ADCSRA, ADEN)

====
